---- MODULE Spec2Model ----
(***************************************************************************)
(* Notes store of src/notes.py: create_note, list_notes, get_note and the *)
(* MCP tool notes() that dispatches on a lower-cased action name.          *)
(*                                                                         *)
(* The table lives behind app.db.get_conn(), which returns the one         *)
(* process-wide sqlite3 connection.  A statement on that connection sees   *)
(* the committed rows and the rows of the connection's open transaction;   *)
(* conn.commit() makes the open transaction's rows durable.  Storage       *)
(* failures are modelled at the two statements of create_note that change  *)
(* the table (the INSERT and the COMMIT); the SELECT statements of         *)
(* list_notes and get_note are taken to succeed.                           *)
(***************************************************************************)
EXTENDS Integers, Sequences, FiniteSets, TLC

\* Largest number of rows the connection may see at once.
MaxNotes == 2

\* The <<title, body>> pairs passed to a call: the defaults of notes() (two
\* empty strings) and a pair whose title and body differ.
NoteTexts == { <<"", "">>, <<"Shopping", "milk, eggs">> }

\* Values passed as id / nid: the dispatcher's default 0, which the table
\* never assigns, and every id it can assign within the bound.
Ids == 0..MaxNotes

Callers == {"c1", "c2"}

VARIABLES
    committed,  \* rows of table notes that are durable
    pending,    \* rows inserted in the shared connection's open transaction
    call,       \* the last call that completed: function and arguments
    result,     \* what that call returned or raised
    returned,   \* history: the notes of the creates that returned, in order
    assigned,   \* history: every id the storage layer handed to an INSERT
    pc,         \* per caller: "idle", or "inserted" between INSERT and COMMIT
    cur         \* per caller: the cursor of its running create_note

vars == <<committed, pending, call, result, returned, assigned, pc, cur>>

-----------------------------------------------------------------------------
(* Action names are sequences of one-character strings, so that lower()    *)
(* is computed character by character.                                     *)

UpperLetters ==
    <<"A","B","C","D","E","F","G","H","I","J","K","L","M",
      "N","O","P","Q","R","S","T","U","V","W","X","Y","Z">>

LowerLetters ==
    <<"a","b","c","d","e","f","g","h","i","j","k","l","m",
      "n","o","p","q","r","s","t","u","v","w","x","y","z">>

\* The lower-case letter of each upper-case letter.
LowerOf ==
    [u \in {UpperLetters[i] : i \in DOMAIN UpperLetters} |->
        LowerLetters[CHOOSE i \in DOMAIN UpperLetters : UpperLetters[i] = u]]

LowerChar(ch) == IF ch \in DOMAIN LowerOf THEN LowerOf[ch] ELSE ch

\* A lower() that converts the first character only.
LowerFirstOnly(s) ==
    [i \in DOMAIN s |-> IF i = 1 THEN LowerChar(s[i]) ELSE s[i]]

\* str.lower() of line 106.
Lower(s) ==
    [i \in DOMAIN s |-> LowerChar(s[i])]

CREATE == <<"c","r","e","a","t","e">>
LIST == <<"l","i","s","t">>
GET == <<"g","e","t">>

\* Other casings of the three names, each with the name it is a casing of.
Casings ==
    { <<CREATE, CREATE>>,
      <<LIST, LIST>>,
      <<GET, GET>>,
      << <<"C","R","E","A","T","E">>, CREATE >>,
      << <<"L","i","s","t">>, LIST >>,
      << <<"g","E","T">>, GET >> }

\* Action names that are no casing of a supported one.
UnknownActions ==
    { <<"d","e","l","e","t","e">>, << >> }

ActionInputs == {p[1] : p \in Casings} \cup UnknownActions

-----------------------------------------------------------------------------
(* Return values.  Every value has the same three fields so that any two   *)
(* can be compared.                                                        *)

NoRows == << >>

IntResult(i) == [kind |-> "int", id |-> i, rows |-> NoRows]
ListResult(rows) == [kind |-> "list", id |-> 0, rows |-> rows]
NoteResult(row) == [kind |-> "note", id |-> row.id, rows |-> <<row>>]
NoneResult == [kind |-> "None", id |-> 0, rows |-> NoRows]
IdDict(i) == [kind |-> "dict_id", id |-> i, rows |-> NoRows]
NotesDict(rows) == [kind |-> "dict_notes", id |-> 0, rows |-> rows]
NotFoundDict == [kind |-> "dict_error_not_found", id |-> 0, rows |-> NoRows]
StorageError == [kind |-> "raise_storage_error", id |-> 0, rows |-> NoRows]
ValueError == [kind |-> "raise_ValueError", id |-> 0, rows |-> NoRows]
NoResult == [kind |-> "none_yet", id |-> 0, rows |-> NoRows]

-----------------------------------------------------------------------------
(* The storage layer as the functions of notes.py use it.                  *)

\* What a statement on the shared connection sees.
Visible(com, pen) == com \cup pen

MaxId(rows) == CHOOSE m \in {r.id : r \in rows} : \A r \in rows : r.id <= m

\* The id the table assigns to an INSERT that names no id.
NextRowid(rows) == IF rows = {} THEN 1 ELSE MaxId(rows) + 1

\* An upsert keyed on the title: a row with the same title is replaced.
ExecuteUpsert(title, body, com, pen) ==
    LET rowid == NextRowid(Visible(com, pen))
    IN  [committed |-> {r \in com : r.title # title},
         pending   |-> {r \in pen : r.title # title}
                          \cup {[id |-> rowid, title |-> title, body |-> body]},
         lastrowid |-> rowid]

\* cur.execute("INSERT INTO notes (title, body) VALUES (?, ?)", (title, body))
ExecuteInsert(title, body, com, pen) ==
    LET rowid == NextRowid(Visible(com, pen))
    IN  [committed |-> com,
         pending   |-> pen \cup {[id |-> rowid, title |-> title, body |-> body]},
         lastrowid |-> rowid]

\* conn.commit(): the open transaction's rows become durable.
Commit(com, pen) == [committed |-> com \cup pen, pending |-> {}]

\* The ways one create_note call can go.
\*   ok              both statements succeed
\*   insert_fails    the INSERT raises; no row was added
\*   commit_busy     COMMIT raises and the transaction stays open
\*   commit_rollback COMMIT raises and sqlite rolls the transaction back
Outcomes == {"ok", "insert_fails", "commit_busy", "commit_rollback"}

RECURSIVE OrderByIdAsc(_)
OrderByIdAsc(rows) ==
    IF rows = {} THEN << >>
    ELSE LET lo == CHOOSE r \in rows : \A q \in rows : r.id <= q.id
         IN  <<lo>> \o OrderByIdAsc(rows \ {lo})

\* SELECT * FROM notes ORDER BY id DESC
RECURSIVE OrderByIdDesc(_)
OrderByIdDesc(rows) ==
    IF rows = {} THEN << >>
    ELSE LET hi == CHOOSE r \in rows : \A q \in rows : q.id <= r.id
         IN  <<hi>> \o OrderByIdDesc(rows \ {hi})

-----------------------------------------------------------------------------
(* The functions of notes.py.  Each yields what the call returns or raises *)
(* and the table it leaves.                                                *)

\* A create_note that returns cur.rowcount, which is 1 after an INSERT.
create_note_rowcount(title, body, outcome, com, pen) ==
    LET ins == ExecuteInsert(title, body, com, pen)
        done == Commit(ins.committed, ins.pending)
    IN  CASE outcome = "insert_fails" ->
               [ret |-> StorageError, committed |-> com, pending |-> pen,
                lastrowid |-> 0]
          [] outcome = "commit_busy" ->
               [ret |-> StorageError, committed |-> ins.committed,
                pending |-> ins.pending, lastrowid |-> ins.lastrowid]
          [] outcome = "commit_rollback" ->
               [ret |-> StorageError, committed |-> ins.committed,
                pending |-> {}, lastrowid |-> ins.lastrowid]
          [] OTHER ->
               [ret |-> IntResult(1), committed |-> done.committed,
                pending |-> done.pending, lastrowid |-> ins.lastrowid]

create_note(title, body, outcome, com, pen) ==
    LET ins == ExecuteInsert(title, body, com, pen)
        done == Commit(ins.committed, ins.pending)
    IN  CASE outcome = "insert_fails" ->
               [ret |-> StorageError, committed |-> com, pending |-> pen,
                lastrowid |-> 0]
          [] outcome = "commit_busy" ->
               [ret |-> StorageError, committed |-> ins.committed,
                pending |-> ins.pending, lastrowid |-> ins.lastrowid]
          [] outcome = "commit_rollback" ->
               [ret |-> StorageError, committed |-> ins.committed,
                pending |-> {}, lastrowid |-> ins.lastrowid]
          [] OTHER ->
               [ret |-> IntResult(ins.lastrowid), committed |-> done.committed,
                pending |-> done.pending, lastrowid |-> ins.lastrowid]

list_notes(com, pen) ==
    [ret |-> ListResult(OrderByIdDesc(Visible(com, pen))),
     committed |-> com, pending |-> pen, lastrowid |-> 0]

\* A get_note whose SELECT has no WHERE clause: fetchone() yields the first row.
get_note_no_where(nid, com, pen) ==
    LET rows == OrderByIdAsc(Visible(com, pen))
    IN  [ret |-> IF rows = << >> THEN NoneResult ELSE NoteResult(rows[1]),
         committed |-> com, pending |-> pen, lastrowid |-> 0]

get_note(nid, com, pen) ==
    LET match == {r \in Visible(com, pen) : r.id = nid}
    IN  [ret |-> IF match = {} THEN NoneResult
                 ELSE NoteResult(CHOOSE r \in match : TRUE),
         committed |-> com, pending |-> pen, lastrowid |-> 0]

\* A dispatcher whose last branch is an else: every other action is a get.
notes_get_is_else(action, title, body, id, outcome, com, pen) ==
    LET a == Lower(action)
        c == create_note(title, body, outcome, com, pen)
        l == list_notes(com, pen)
        g == get_note(id, com, pen)
    IN  IF a = CREATE
        THEN [c EXCEPT !.ret = IF c.ret.kind = "int" THEN IdDict(c.ret.id)
                                ELSE c.ret]
        ELSE IF a = LIST
        THEN [l EXCEPT !.ret = NotesDict(l.ret.rows)]
        ELSE [g EXCEPT !.ret = IF g.ret.kind = "None" THEN NotFoundDict
                                ELSE g.ret]

\* A dispatcher that hands get_note's None to the caller.
notes_returns_none(action, title, body, id, outcome, com, pen) ==
    LET a == Lower(action)
        c == create_note(title, body, outcome, com, pen)
        l == list_notes(com, pen)
        g == get_note(id, com, pen)
    IN  IF a = CREATE
        THEN [c EXCEPT !.ret = IF c.ret.kind = "int" THEN IdDict(c.ret.id)
                                ELSE c.ret]
        ELSE IF a = LIST
        THEN [l EXCEPT !.ret = NotesDict(l.ret.rows)]
        ELSE IF a = GET
        THEN g
        ELSE [ret |-> ValueError, committed |-> com, pending |-> pen,
              lastrowid |-> 0]

notes(action, title, body, id, outcome, com, pen) ==
    LET a == Lower(action)
        c == create_note(title, body, outcome, com, pen)
        l == list_notes(com, pen)
        g == get_note(id, com, pen)
    IN  IF a = CREATE
        THEN [c EXCEPT !.ret = IF c.ret.kind = "int" THEN IdDict(c.ret.id)
                                ELSE c.ret]
        ELSE IF a = LIST
        THEN [l EXCEPT !.ret = NotesDict(l.ret.rows)]
        ELSE IF a = GET
        THEN [g EXCEPT !.ret = IF g.ret.kind = "None" THEN NotFoundDict
                                ELSE g.ret]
        ELSE [ret |-> ValueError, committed |-> com, pending |-> pen,
              lastrowid |-> 0]

-----------------------------------------------------------------------------
(* One caller at a time: every call runs to completion.                    *)

NoCall == [fn |-> "none", action |-> << >>, title |-> "", body |-> "", id |-> 0]
NoCursor == [lastrowid |-> 0, title |-> "", body |-> ""]

Init ==
    /\ committed = {}
    /\ pending = {}
    /\ call = NoCall
    /\ result = NoResult
    /\ returned = << >>
    /\ assigned = {}
    /\ pc = [c \in Callers |-> "idle"]
    /\ cur = [c \in Callers |-> NoCursor]

\* The table a call leaves stays within the bound.
Fits(r) == Cardinality(Visible(r.committed, r.pending)) <= MaxNotes

\* The effect of a finished call on the state.
Finish(r, fn, action, title, body, id) ==
    /\ committed' = r.committed
    /\ pending' = r.pending
    /\ call' = [fn |-> fn, action |-> action, title |-> title, body |-> body,
                id |-> id]
    /\ result' = r.ret
    /\ returned' = IF r.ret.kind \in {"int", "dict_id"}
                   THEN Append(returned, [id |-> r.ret.id, title |-> title,
                                          body |-> body])
                   ELSE returned
    /\ assigned' = IF r.lastrowid # 0 THEN assigned \cup {r.lastrowid}
                   ELSE assigned
    /\ UNCHANGED <<pc, cur>>

CallCreateNote ==
    \E tb \in NoteTexts, outcome \in Outcomes :
        LET r == create_note(tb[1], tb[2], outcome, committed, pending)
        IN  Fits(r) /\ Finish(r, "create_note", << >>, tb[1], tb[2], 0)

CallListNotes ==
    /\ TRUE
    /\ Finish(list_notes(committed, pending), "list_notes", << >>, "", "", 0)

CallGetNote ==
    \E nid \in Ids :
        /\ TRUE
        /\ Finish(get_note(nid, committed, pending), "get_note", << >>, "", "",
                  nid)

CallNotes ==
    \E action \in ActionInputs, tb \in NoteTexts, id \in Ids,
       outcome \in Outcomes :
        \* only a call that runs the INSERT and the COMMIT can meet their failures
        /\ outcome = "ok" \/ Lower(action) = CREATE
        /\ LET r == notes(action, tb[1], tb[2], id, outcome, committed, pending)
           IN  Fits(r) /\ Finish(r, "notes", action, tb[1], tb[2], id)

Next == CallCreateNote \/ CallListNotes \/ CallGetNote \/ CallNotes

Spec == Init /\ [][Next]_vars

-----------------------------------------------------------------------------
(* Several callers on the shared connection.  create_note is two           *)
(* statements, the INSERT of line 31 and the COMMIT of line 32, and other  *)
(* callers' statements may run between them; list_notes and get_note are   *)
(* one statement each.  Storage failures are left out here.                *)

ConcInsert(c) ==
    \E tb \in NoteTexts :
        LET title == tb[1]
            body == tb[2]
            ins == ExecuteInsert(title, body, committed, pending)
        IN  /\ pc[c] = "idle"
            /\ Fits(ins)
            /\ committed' = ins.committed
            /\ pending' = ins.pending
            /\ assigned' = assigned \cup {ins.lastrowid}
            /\ cur' = [cur EXCEPT ![c] = [lastrowid |-> ins.lastrowid,
                                          title |-> title, body |-> body]]
            /\ pc' = [pc EXCEPT ![c] = "inserted"]
            /\ UNCHANGED <<call, result, returned>>

ConcCommit(c) ==
    LET done == Commit(committed, pending)
    IN  /\ pc[c] = "inserted"
        /\ committed' = done.committed
        /\ pending' = done.pending
        /\ call' = [fn |-> "create_note", action |-> << >>,
                    title |-> cur[c].title, body |-> cur[c].body, id |-> 0]
        /\ result' = IntResult(cur[c].lastrowid)
        /\ returned' = Append(returned, [id |-> cur[c].lastrowid,
                                         title |-> cur[c].title,
                                         body |-> cur[c].body])
        /\ cur' = [cur EXCEPT ![c] = NoCursor]
        /\ pc' = [pc EXCEPT ![c] = "idle"]
        /\ UNCHANGED assigned

ConcList(c) ==
    /\ pc[c] = "idle"
    /\ Finish(list_notes(committed, pending), "list_notes", << >>, "", "", 0)

ConcGet(c) ==
    \E nid \in Ids :
        /\ pc[c] = "idle"
        /\ Finish(get_note(nid, committed, pending), "get_note", << >>, "", "",
                  nid)

NextConc ==
    \E c \in Callers : ConcInsert(c) \/ ConcCommit(c) \/ ConcList(c) \/ ConcGet(c)

SpecConc == Init /\ [][NextConc]_vars

-----------------------------------------------------------------------------
(* Vocabulary of the properties.                                           *)

ReturnedNotes == {returned[k] : k \in DOMAIN returned}

CasingsOf(name) == {p[1] : p \in {q \in Casings : q[2] = name}}

IsCreateCall ==
    \/ call.fn = "create_note"
    \/ call.fn = "notes" /\ call.action \in CasingsOf(CREATE)

IsListCall ==
    \/ call.fn = "list_notes"
    \/ call.fn = "notes" /\ call.action \in CasingsOf(LIST)

IsGetCall ==
    \/ call.fn = "get_note"
    \/ call.fn = "notes" /\ call.action \in CasingsOf(GET)

Created == result.kind \in {"int", "dict_id"}

Reverse(s) == [k \in 1..Len(s) |-> s[Len(s) + 1 - k]]

IsReturnedNote(r) == r \in ReturnedNotes

StrictlyDescending(rows) ==
    \A k \in 1..(Len(rows) - 1) : rows[k].id > rows[k + 1].id

-----------------------------------------------------------------------------
\* C1: every create that returns yields an id that no earlier create
\* returned, and no two stored notes share an id.
C1_DistinctIds ==
    /\ \A i, j \in DOMAIN returned : i # j => returned[i].id # returned[j].id
    /\ \A r, q \in Visible(committed, pending) : r.id = q.id => r = q

\* Two creates have returned, the second one just now, with the empty title.
C1_Witness ==
    /\ IsCreateCall /\ Created
    /\ Len(returned) >= 2
    /\ call.title = "" /\ call.body = ""

\* C2: a create that returns id i stores the note (i, title, body): a get of
\* i right after it returns exactly that note, from get_note and from the
\* dispatcher alike, and the dispatcher's create returns {"id": i}.
C2_RoundTrip ==
    [][ /\ (IsCreateCall /\ Created /\ IsGetCall' /\ call'.id = result.id)
            => result' = NoteResult([id |-> result.id, title |-> call.title,
                                     body |-> call.body])
        /\ (Created' /\ call'.fn = "notes") => result'.kind = "dict_id"
        /\ (Created' /\ call'.fn = "create_note") => result'.kind = "int"
      ]_vars

\* A dispatcher get has just returned the note of the latest create.
C2_Witness ==
    /\ call.fn = "notes" /\ IsGetCall
    /\ Len(returned) >= 1
    /\ result = NoteResult(returned[Len(returned)])
    /\ result.rows[1].title = "Shopping"
    /\ result.rows[1].body = "milk, eggs"

C4_ListLength ==
    IsListCall =>
        /\ StrictlyDescending(result.rows)
        /\ Len(result.rows) = Len(returned)

\* C5: in every store state and for all arguments, the dispatcher gives each
\* casing of create, list and get the result and the table it gives the
\* lower-case name.
C5_CaseInsensitive ==
    \A p \in Casings, tb \in NoteTexts, id \in Ids, outcome \in Outcomes :
        notes(p[1], tb[1], tb[2], id, outcome, committed, pending)
            = notes(p[2], tb[1], tb[2], id, outcome, committed, pending)

\* The dispatcher created a note under the action name CREATE.
C5_Witness ==
    /\ call.fn = "notes"
    /\ call.action = <<"C","R","E","A","T","E">>
    /\ result.kind = "dict_id"
    /\ [id |-> result.id, title |-> call.title, body |-> call.body]
           \in committed

\* C6: the dispatcher raises ValueError for an action that is no casing of
\* create, list or get, whatever the other arguments, and the table is the
\* same before and after.
C6_UnknownAction ==
    [][ (call'.fn = "notes" /\ call'.action \in UnknownActions)
            => /\ result' = ValueError
               /\ UNCHANGED <<committed, pending>>
      ]_vars

\* delete was refused on a store that holds a note, title, body and id given.
C6_Witness ==
    /\ call.fn = "notes"
    /\ call.action = <<"d","e","l","e","t","e">>
    /\ call.title = "Shopping" /\ call.id = 1
    /\ result = ValueError
    /\ committed # {}

\* C7: the note of a create that returned stays in the table with its id,
\* title and body through every later call, failing ones included; no call
\* removes or changes a durable row, and list and get change nothing.
C7_AppendOnly ==
    [][ /\ committed \subseteq committed'
        /\ {returned'[k] : k \in DOMAIN returned'} \subseteq committed'
        /\ (IsListCall' \/ IsGetCall') => UNCHANGED <<committed, pending>>
      ]_vars

\* A create has just failed after another one returned, and that note stands.
C7_Witness ==
    /\ IsCreateCall
    /\ result = StorageError
    /\ Len(returned) >= 1
    /\ returned[1] \in committed

C9_Isolation ==
    (IsListCall \/ IsGetCall)
        => \A k \in DOMAIN result.rows : result.rows[k] \in committed

\* C10: a create that raises stores nothing: every note that list and get
\* can return, and every durable one, is the note of a create that returned.
C10_FailedCreateStoresNothing ==
    Visible(committed, pending) \subseteq ReturnedNotes

====
